---- MODULE Spec2Model ----
(* The Cirebon register-machine interpreter (cirebon.py): tokens, label     *)
(* resolution and the fetch-decode-execute loop of execute().               *)
(*                                                                          *)
(* A token (a Python str) is a sequence of one-character strings, so that   *)
(* lower(), upper(), endswith(), isdigit(), int() and strip() are computed  *)
(* character by character.  Indices into the program are 0-based as in the  *)
(* source; tokens[ip] of the source is tokens[ip + 1] here.                 *)
EXTENDS Integers, Sequences, FiniteSets, TLC

(* ------------------------------------------------------------------------ *)
(* Bounds                                                                   *)
(* ------------------------------------------------------------------------ *)
MaxProgLen == 2
MaxSteps == 12
MaxRuns == 2

(* ------------------------------------------------------------------------ *)
(* Python values: int and str, kept apart by a tag                          *)
(* ------------------------------------------------------------------------ *)
IntV(n) == [t |-> "int", i |-> n, s |-> <<>>]
StrV(str) == [t |-> "str", i |-> 0, s |-> str]
IsInt(v) == v.t = "int"
IsStr(v) == v.t = "str"

(* current_channel = None; no token is empty, so <<>> names no channel *)
None == <<>>

(* ------------------------------------------------------------------------ *)
(* str methods                                                              *)
(* ------------------------------------------------------------------------ *)
LowerLetters == <<"a","b","c","d","e","f","g","h","i","j","k","l","m",
                  "n","o","p","q","r","s","t","u","v","w","x","y","z">>
UpperLetters == <<"A","B","C","D","E","F","G","H","I","J","K","L","M",
                  "N","O","P","Q","R","S","T","U","V","W","X","Y","Z">>
AsciiDigits == <<"0","1","2","3","4","5","6","7","8","9">>
(* characters for which str.isdigit() is true although int() rejects them *)
OtherDigits == {"²"}

UpperChar(c) ==
    IF \E k \in 1..26 : LowerLetters[k] = c
    THEN UpperLetters[CHOOSE k \in 1..26 : LowerLetters[k] = c]
    ELSE c
LowerChar(c) ==
    IF \E k \in 1..26 : UpperLetters[k] = c
    THEN LowerLetters[CHOOSE k \in 1..26 : UpperLetters[k] = c]
    ELSE c
upper(str) == [k \in 1..Len(str) |-> UpperChar(str[k])]
lower(str) == [k \in 1..Len(str) |-> LowerChar(str[k])]
endswith(str, c) == Len(str) > 0 /\ str[Len(str)] = c
startswith(str, c) == Len(str) > 0 /\ str[1] = c
IsAsciiDigit(c) == \E k \in 1..10 : AsciiDigits[k] = c
DigitVal(c) == (CHOOSE k \in 1..10 : AsciiDigits[k] = c) - 1
isdigit(str) ==
    /\ Len(str) > 0
    /\ \A k \in 1..Len(str) : IsAsciiDigit(str[k]) \/ str[k] \in OtherDigits

RECURSIVE DigitsVal(_)
DigitsVal(str) ==
    IF str = <<>> THEN 0
    ELSE DigitsVal(SubSeq(str, 1, Len(str) - 1)) * 10 + DigitVal(str[Len(str)])

(* int(str): an optional sign followed by ASCII decimal digits; anything    *)
(* else raises ValueError                                                   *)
IntBody(str) == IF startswith(str, "-") \/ startswith(str, "+") THEN Tail(str) ELSE str
IntParses(str) ==
    /\ Len(IntBody(str)) > 0
    /\ \A k \in 1..Len(IntBody(str)) : IsAsciiDigit(IntBody(str)[k])
int(str) == IF startswith(str, "-") THEN 0 - DigitsVal(IntBody(str)) ELSE DigitsVal(IntBody(str))

(* ' '.join(toks) *)
RECURSIVE join(_)
join(toks) ==
    IF toks = <<>> THEN <<>>
    ELSE IF Len(toks) = 1 THEN toks[1]
    ELSE toks[1] \o <<" ">> \o join(Tail(toks))

(* str.strip(c) *)
RECURSIVE lstrip(_, _)
lstrip(str, c) == IF startswith(str, c) THEN lstrip(Tail(str), c) ELSE str
RECURSIVE rstrip(_, _)
rstrip(str, c) == IF endswith(str, c) THEN rstrip(SubSeq(str, 1, Len(str) - 1), c) ELSE str
strip(str, c) == rstrip(lstrip(str, c), c)

(* dict helpers: d[k] = v on a dict, and del d[k] *)
DictSet(d, k, v) == [x \in DOMAIN d \cup {k} |-> IF x = k THEN v ELSE d[x]]
DictDel(d, k) == [x \in DOMAIN d \ {k} |-> d[x]]
EmptyDict == [x \in {} |-> 0]

(* ------------------------------------------------------------------------ *)
(* find_labels                                                              *)
(* ------------------------------------------------------------------------ *)
(* variant: a scan that keeps the first declaration of a name *)
RECURSIVE FindLabelsKeepFirst(_, _, _)
FindLabelsKeepFirst(toks, i, labs) ==
    IF i >= Len(toks) THEN labs
    ELSE LET name == SubSeq(toks[i + 1][1], 1, Len(toks[i + 1][1]) - 1) IN
         IF endswith(toks[i + 1][1], ":") /\ name \notin DOMAIN labs
         THEN FindLabelsKeepFirst(toks, i + 1, DictSet(labs, name, i))
         ELSE FindLabelsKeepFirst(toks, i + 1, labs)
find_labels_KeepFirst(toks) == FindLabelsKeepFirst(toks, 0, [x \in {} |-> 0])

(* variant: a scan that records the index of the line after the label *)
RECURSIVE FindLabelsNextIndex(_, _, _)
FindLabelsNextIndex(toks, i, labs) ==
    IF i >= Len(toks) THEN labs
    ELSE IF endswith(toks[i + 1][1], ":")
         THEN FindLabelsNextIndex(toks, i + 1,
                  DictSet(labs, SubSeq(toks[i + 1][1], 1, Len(toks[i + 1][1]) - 1), i + 1))
         ELSE FindLabelsNextIndex(toks, i + 1, labs)
find_labels_NextIndex(toks) == FindLabelsNextIndex(toks, 0, [x \in {} |-> 0])

RECURSIVE FindLabelsFrom(_, _, _)
FindLabelsFrom(toks, i, labs) ==
    IF i >= Len(toks) THEN labs
    ELSE IF endswith(toks[i + 1][1], ":")
         THEN FindLabelsFrom(toks, i + 1,
                  DictSet(labs, SubSeq(toks[i + 1][1], 1, Len(toks[i + 1][1]) - 1), i))
         ELSE FindLabelsFrom(toks, i + 1, labs)
find_labels(toks) == FindLabelsFrom(toks, 0, EmptyDict)

(* ------------------------------------------------------------------------ *)
(* Arithmetic of Python values                                              *)
(* ------------------------------------------------------------------------ *)
Abs(n) == IF n < 0 THEN 0 - n ELSE n
(* division that rounds toward zero *)
FloorDiv_Truncates(a, b) ==
    IF (a < 0) = (b < 0) THEN Abs(a) \div Abs(b) ELSE 0 - (Abs(a) \div Abs(b))

(* a // b on ints, b # 0: rounds toward negative infinity *)
FloorDiv(a, b) ==
    LET q == Abs(a) \div Abs(b)
        exact == q * Abs(b) = Abs(a)
    IN  IF (a < 0) = (b < 0) THEN q
        ELSE IF exact THEN 0 - q ELSE 0 - q - 1

RECURSIVE Repeat(_, _)
Repeat(str, n) == IF n <= 0 THEN <<>> ELSE str \o Repeat(str, n - 1)

(* the binary operators either yield a value or raise TypeError *)
AddOk(a, b) == a.t = b.t
AddV(a, b) == IF IsInt(a) THEN IntV(a.i + b.i) ELSE StrV(a.s \o b.s)
SubOk(a, b) == IsInt(a) /\ IsInt(b)
SubV(a, b) == IntV(a.i - b.i)
MulOk(a, b) == IsInt(a) \/ IsInt(b)
MulV(a, b) ==
    IF IsInt(a) /\ IsInt(b) THEN IntV(a.i * b.i)
    ELSE IF IsStr(a) THEN StrV(Repeat(a.s, b.i))
    ELSE StrV(Repeat(b.s, a.i))
DivOk(a, b) == IsInt(a) /\ IsInt(b)
DivV(a, b) == IntV(FloorDiv(a.i, b.i))
(* v == 0 *)
IsZero(v) == IsInt(v) /\ v.i = 0

(* ------------------------------------------------------------------------ *)
(* Results of one instruction: the state it leaves, whether the loop        *)
(* breaks, and the error condition                                          *)
(* ------------------------------------------------------------------------ *)
OutLine(kind, msg, arg, val) == [kind |-> kind, msg |-> msg, arg |-> arg, val |-> val]
Emit(s, l) == [s EXCEPT !.output = Append(@, l)]
(* a branch that completes without the increment of ip taking effect *)
Ok_NoIncrement(s) == [s |-> [s EXCEPT !.ip = @ - 1], brk |-> FALSE, err |-> "none"]
Ok(s) == [s |-> s, brk |-> FALSE, err |-> "none"]
Break(s, e, arg) == [s |-> Emit(s, OutLine("error", e, arg, IntV(0))), brk |-> TRUE, err |-> e]
(* the handlers at the end of the try block *)
IndexError(s, command) == Break(s, "IncompleteCommand", command)
KeyError(s, key) == Break(s, "KeyError", key)
Exception(s) == Break(s, "Exception", <<>>)

IsLiteral(source) ==
    isdigit(source) \/ (startswith(source, "-") /\ isdigit(Tail(source)))

ExecMov(lt, s) ==
    IF Len(lt) < 3 THEN IndexError(s, lower(lt[1]))
    ELSE LET target_reg == upper(lt[2])
             source == lt[3]
         IN  IF IsLiteral(source)
             THEN IF IntParses(source)
                  THEN Ok([s EXCEPT !.registers = DictSet(@, target_reg, IntV(int(source)))])
                  ELSE Exception(s)
             ELSE IF upper(source) \in DOMAIN s.registers
             THEN Ok([s EXCEPT !.registers = DictSet(@, target_reg, s.registers[upper(source)])])
             ELSE IF source \in DOMAIN s.constants
             THEN Ok([s EXCEPT !.registers = DictSet(@, target_reg, s.constants[source])])
             ELSE Break(s, "UnknownSource", source)

(* registers[target_reg] op= registers[source_reg]: both keys are read, then  *)
(* the operator is applied, then the result is stored                       *)
ExecAdd(lt, s) ==
    IF Len(lt) < 3 THEN IndexError(s, lower(lt[1]))
    ELSE LET target_reg == upper(lt[2])
             source_reg == upper(lt[3])
         IN  IF target_reg \notin DOMAIN s.registers THEN KeyError(s, target_reg)
             ELSE IF source_reg \notin DOMAIN s.registers THEN KeyError(s, source_reg)
             ELSE IF ~AddOk(s.registers[target_reg], s.registers[source_reg]) THEN Exception(s)
             ELSE Ok([s EXCEPT !.registers[target_reg] =
                         AddV(s.registers[target_reg], s.registers[source_reg])])

ExecSub(lt, s) ==
    IF Len(lt) < 3 THEN IndexError(s, lower(lt[1]))
    ELSE LET target_reg == upper(lt[2])
             source_reg == upper(lt[3])
         IN  IF target_reg \notin DOMAIN s.registers THEN KeyError(s, target_reg)
             ELSE IF source_reg \notin DOMAIN s.registers THEN KeyError(s, source_reg)
             ELSE IF ~SubOk(s.registers[target_reg], s.registers[source_reg]) THEN Exception(s)
             ELSE Ok([s EXCEPT !.registers[target_reg] =
                         SubV(s.registers[target_reg], s.registers[source_reg])])

ExecMul(lt, s) ==
    IF Len(lt) < 3 THEN IndexError(s, lower(lt[1]))
    ELSE LET target_reg == upper(lt[2])
             source_reg == upper(lt[3])
         IN  IF target_reg \notin DOMAIN s.registers THEN KeyError(s, target_reg)
             ELSE IF source_reg \notin DOMAIN s.registers THEN KeyError(s, source_reg)
             ELSE IF ~MulOk(s.registers[target_reg], s.registers[source_reg]) THEN Exception(s)
             ELSE Ok([s EXCEPT !.registers[target_reg] =
                         MulV(s.registers[target_reg], s.registers[source_reg])])

(* div that zeroes the destination before reporting a zero divisor *)
ExecDiv_ClobbersDst(lt, s) ==
    IF Len(lt) < 3 THEN IndexError(s, lower(lt[1]))
    ELSE LET target_reg == upper(lt[2])
             source_reg == upper(lt[3])
         IN  IF source_reg \notin DOMAIN s.registers THEN KeyError(s, source_reg)
             ELSE IF IsZero(s.registers[source_reg])
             THEN Break([s EXCEPT !.registers = DictSet(@, target_reg, IntV(0))],
                        "DivisionByZero", <<>>)
             ELSE IF target_reg \notin DOMAIN s.registers THEN KeyError(s, target_reg)
             ELSE IF ~DivOk(s.registers[target_reg], s.registers[source_reg]) THEN Exception(s)
             ELSE Ok([s EXCEPT !.registers[target_reg] =
                         DivV(s.registers[target_reg], s.registers[source_reg])])

ExecDiv(lt, s) ==
    IF Len(lt) < 3 THEN IndexError(s, lower(lt[1]))
    ELSE LET target_reg == upper(lt[2])
             source_reg == upper(lt[3])
         IN  IF source_reg \notin DOMAIN s.registers THEN KeyError(s, source_reg)
             ELSE IF IsZero(s.registers[source_reg]) THEN Break(s, "DivisionByZero", <<>>)
             ELSE IF target_reg \notin DOMAIN s.registers THEN KeyError(s, target_reg)
             ELSE IF ~DivOk(s.registers[target_reg], s.registers[source_reg]) THEN Exception(s)
             ELSE Ok([s EXCEPT !.registers[target_reg] =
                         DivV(s.registers[target_reg], s.registers[source_reg])])

ExecConst(lt, s) ==
    IF Len(lt) < 3 THEN IndexError(s, lower(lt[1]))
    ELSE LET const_name == lt[2] IN
         IF startswith(lt[3], "\"") /\ endswith(lt[Len(lt)], "\"")
         THEN Ok([s EXCEPT !.constants =
                     DictSet(@, const_name, StrV(strip(join(SubSeq(lt, 3, Len(lt))), "\"")))])
         ELSE IF IntParses(lt[3])
         THEN Ok([s EXCEPT !.constants = DictSet(@, const_name, IntV(int(lt[3])))])
         ELSE Exception(s)

ExecPush(lt, s) ==
    IF Len(lt) < 2 THEN IndexError(s, lower(lt[1]))
    ELSE LET source == lt[2] IN
         IF upper(source) \in DOMAIN s.registers
         THEN Ok([s EXCEPT !.stack = Append(@, s.registers[upper(source)])])
         ELSE IF IntParses(source)
         THEN Ok([s EXCEPT !.stack = Append(@, IntV(int(source)))])
         ELSE Exception(s)

(* pop that takes the value off the stack before it reads its operand *)
ExecPop_PopsFirst(lt, s) ==
    IF s.stack = <<>>
    THEN IF Len(lt) < 2 THEN IndexError(s, lower(lt[1])) ELSE Break(s, "EmptyStack", <<>>)
    ELSE IF Len(lt) < 2
    THEN IndexError([s EXCEPT !.stack = SubSeq(@, 1, Len(@) - 1)], lower(lt[1]))
    ELSE Ok([s EXCEPT !.registers = DictSet(@, upper(lt[2]), s.stack[Len(s.stack)]),
                      !.stack = SubSeq(@, 1, Len(@) - 1)])

(* pop that takes the oldest element of the stack *)
ExecPop_TakesBottom(lt, s) ==
    IF Len(lt) < 2 THEN IndexError(s, lower(lt[1]))
    ELSE LET target_reg == upper(lt[2]) IN
         IF s.stack = <<>> THEN Break(s, "EmptyStack", <<>>)
         ELSE Ok([s EXCEPT !.registers = DictSet(@, target_reg, s.stack[1]),
                           !.stack = Tail(@)])

ExecPop(lt, s) ==
    IF Len(lt) < 2 THEN IndexError(s, lower(lt[1]))
    ELSE LET target_reg == upper(lt[2]) IN
         IF s.stack = <<>> THEN Break(s, "EmptyStack", <<>>)
         ELSE Ok([s EXCEPT !.registers = DictSet(@, target_reg, s.stack[Len(s.stack)]),
                           !.stack = SubSeq(@, 1, Len(@) - 1)])

(* chadd that empties a channel which already exists *)
ExecChadd_Resets(lt, s) ==
    IF Len(lt) < 2 THEN IndexError(s, lower(lt[1]))
    ELSE LET channel_name == lt[2] IN
         IF channel_name \notin DOMAIN s.channels
         THEN Ok([s EXCEPT !.channels = DictSet(@, channel_name, <<>>)])
         ELSE Ok(Emit([s EXCEPT !.channels = DictSet(@, channel_name, <<>>)],
                      OutLine("warning", "ChannelAlreadyExists", channel_name, IntV(0))))

ExecChadd(lt, s) ==
    IF Len(lt) < 2 THEN IndexError(s, lower(lt[1]))
    ELSE LET channel_name == lt[2] IN
         IF channel_name \notin DOMAIN s.channels
         THEN Ok([s EXCEPT !.channels = DictSet(@, channel_name, <<>>)])
         ELSE Ok(Emit(s, OutLine("warning", "ChannelAlreadyExists", channel_name, IntV(0))))

(* chdel that forgets to clear the active channel *)
ExecChdel_KeepsActive(lt, s) ==
    IF Len(lt) < 2 THEN IndexError(s, lower(lt[1]))
    ELSE LET channel_name == lt[2] IN
         IF channel_name \in DOMAIN s.channels
         THEN Ok([s EXCEPT !.channels = DictDel(@, channel_name)])
         ELSE Break(s, "UnknownChannel", channel_name)

(* chdel that clears the active channel whichever channel it deletes *)
ExecChdel_AlwaysClears(lt, s) ==
    IF Len(lt) < 2 THEN IndexError(s, lower(lt[1]))
    ELSE LET channel_name == lt[2] IN
         IF channel_name \in DOMAIN s.channels
         THEN Ok([s EXCEPT !.channels = DictDel(@, channel_name),
                           !.current_channel = None])
         ELSE Break(s, "UnknownChannel", channel_name)

ExecChdel(lt, s) ==
    IF Len(lt) < 2 THEN IndexError(s, lower(lt[1]))
    ELSE LET channel_name == lt[2] IN
         IF channel_name \in DOMAIN s.channels
         THEN Ok([s EXCEPT !.channels = DictDel(@, channel_name),
                           !.current_channel = IF @ = channel_name THEN None ELSE @])
         ELSE Break(s, "UnknownChannel", channel_name)

ExecChswitch(lt, s) ==
    IF Len(lt) < 2 THEN IndexError(s, lower(lt[1]))
    ELSE LET channel_name == lt[2] IN
         IF channel_name \in DOMAIN s.channels
         THEN Ok([s EXCEPT !.current_channel = channel_name])
         ELSE Break(s, "UnknownChannel", channel_name)

ExecChin(lt, s) ==
    IF s.current_channel = None THEN Break(s, "NoActiveChannel", <<>>)
    ELSE IF Len(lt) < 2 THEN IndexError(s, lower(lt[1]))
    ELSE LET source == lt[2] IN
         IF upper(source) \in DOMAIN s.registers
         THEN IF s.current_channel \notin DOMAIN s.channels
              THEN KeyError(s, s.current_channel)
              ELSE Ok([s EXCEPT !.channels[s.current_channel] =
                          Append(@, s.registers[upper(source)])])
         ELSE IF source \in DOMAIN s.constants
         THEN IF s.current_channel \notin DOMAIN s.channels
              THEN KeyError(s, s.current_channel)
              ELSE Ok([s EXCEPT !.channels[s.current_channel] =
                          Append(@, s.constants[source])])
         ELSE Break(s, "UnknownSource", source)

(* chout that takes the newest element of the channel *)
ExecChout_TakesLast(lt, s) ==
    IF s.current_channel = None THEN Break(s, "NoActiveChannel", <<>>)
    ELSE IF s.current_channel \notin DOMAIN s.channels THEN KeyError(s, s.current_channel)
    ELSE IF s.channels[s.current_channel] = <<>>
    THEN Break(s, "EmptyChannel", s.current_channel)
    ELSE LET q == s.channels[s.current_channel] IN
         Ok(Emit([s EXCEPT !.channels[s.current_channel] = SubSeq(q, 1, Len(q) - 1)],
                 OutLine("chout", "none", s.current_channel, q[Len(q)])))

ExecChout(lt, s) ==
    IF s.current_channel = None THEN Break(s, "NoActiveChannel", <<>>)
    ELSE IF s.current_channel \notin DOMAIN s.channels THEN KeyError(s, s.current_channel)
    ELSE IF s.channels[s.current_channel] = <<>>
    THEN Break(s, "EmptyChannel", s.current_channel)
    ELSE LET value == Head(s.channels[s.current_channel]) IN
         Ok(Emit([s EXCEPT !.channels[s.current_channel] = Tail(@)],
                 OutLine("chout", "none", s.current_channel, value)))

ExecChmov(lt, s) ==
    IF s.current_channel = None THEN Break(s, "NoActiveChannel", <<>>)
    ELSE IF s.current_channel \notin DOMAIN s.channels THEN KeyError(s, s.current_channel)
    ELSE IF s.channels[s.current_channel] = <<>>
    THEN Break(s, "EmptyChannel", s.current_channel)
    ELSE IF Len(lt) < 2 THEN IndexError(s, lower(lt[1]))
    ELSE LET target_reg == upper(lt[2])
             value == Head(s.channels[s.current_channel])
         IN  Ok([s EXCEPT !.channels[s.current_channel] = Tail(@),
                          !.registers = DictSet(@, target_reg, value)])

ExecPrtReg(lt, s) ==
    IF Len(lt) < 2 THEN IndexError(s, lower(lt[1]))
    ELSE LET reg_name == upper(lt[2]) IN
         IF reg_name \in DOMAIN s.registers
         THEN Ok(Emit(s, OutLine("prt_reg", "none", reg_name, s.registers[reg_name])))
         ELSE Break(s, "UnknownRegister", reg_name)

(* prt_str that breaks when the constant is not a string *)
ExecPrtStr_Halts(lt, s) ==
    IF Len(lt) < 2 THEN IndexError(s, lower(lt[1]))
    ELSE LET const_name == lt[2] IN
         IF const_name \in DOMAIN s.constants /\ IsStr(s.constants[const_name])
         THEN Ok(Emit(s, OutLine("prt_str", "none", const_name, s.constants[const_name])))
         ELSE Break(s, "NotAString", const_name)

ExecPrtStr(lt, s) ==
    IF Len(lt) < 2 THEN IndexError(s, lower(lt[1]))
    ELSE LET const_name == lt[2] IN
         IF const_name \in DOMAIN s.constants /\ IsStr(s.constants[const_name])
         THEN Ok(Emit(s, OutLine("prt_str", "none", const_name, s.constants[const_name])))
         ELSE Ok(Emit(s, OutLine("error", "NotAString", const_name, IntV(0))))

ExecCmp(lt, s) ==
    IF Len(lt) < 3 THEN IndexError(s, lower(lt[1]))
    ELSE LET reg1 == upper(lt[2])
             reg2 == upper(lt[3])
         IN  IF reg1 \notin DOMAIN s.registers THEN KeyError(s, reg1)
             ELSE IF reg2 \notin DOMAIN s.registers THEN KeyError(s, reg2)
             ELSE Ok([s EXCEPT !.flags = [EQUAL |-> s.registers[reg1] = s.registers[reg2]]])

(* a jump that compensates for the increment at the end of the loop body *)
Jump_SkipsIncrement(lt, s, labels) ==
    LET label == lt[2] IN
    IF label \in DOMAIN labels
    THEN Ok([s EXCEPT !.ip = labels[label] - 1])
    ELSE Break(s, "UnknownLabel", label)

(* a jump that leaves ip alone *)
Jump_NoTransfer(lt, s, labels) ==
    LET label == lt[2] IN
    IF label \in DOMAIN labels
    THEN Ok(s)
    ELSE Break(s, "UnknownLabel", label)

(* ip = labels[label]; the increment at the end of the loop body follows *)
Jump(lt, s, labels) ==
    LET label == lt[2] IN
    IF label \in DOMAIN labels
    THEN Ok([s EXCEPT !.ip = labels[label]])
    ELSE Break(s, "UnknownLabel", label)

ExecJmp(lt, s, labels) ==
    IF Len(lt) < 2 THEN IndexError(s, lower(lt[1]))
    ELSE Jump(lt, s, labels)

(* je that consumes the flag when it jumps *)
ExecJe_ClearsFlag(lt, s, labels) ==
    IF Len(lt) < 2 THEN IndexError(s, lower(lt[1]))
    ELSE IF s.flags.EQUAL
         THEN IF lt[2] \in DOMAIN labels
              THEN Ok([s EXCEPT !.ip = labels[lt[2]], !.flags = [EQUAL |-> FALSE]])
              ELSE Break(s, "UnknownLabel", lt[2])
         ELSE Ok(s)

(* je that looks its label up before it tests the flag *)
ExecJe_LooksUpFirst(lt, s, labels) ==
    IF Len(lt) < 2 THEN IndexError(s, lower(lt[1]))
    ELSE IF lt[2] \notin DOMAIN labels THEN Break(s, "UnknownLabel", lt[2])
    ELSE IF s.flags.EQUAL THEN Ok([s EXCEPT !.ip = labels[lt[2]]]) ELSE Ok(s)

ExecJe(lt, s, labels) ==
    IF Len(lt) < 2 THEN IndexError(s, lower(lt[1]))
    ELSE IF s.flags.EQUAL THEN Jump(lt, s, labels) ELSE Ok(s)

ExecJne(lt, s, labels) ==
    IF Len(lt) < 2 THEN IndexError(s, lower(lt[1]))
    ELSE IF ~s.flags.EQUAL THEN Jump(lt, s, labels) ELSE Ok(s)

ExecUnknown(lt, s) == Break(s, "UnknownCommand", lower(lt[1]))

(* ------------------------------------------------------------------------ *)
(* Tokens and programs                                                      *)
(* ------------------------------------------------------------------------ *)
t_mov == <<"m","o","v">>
t_add == <<"a","d","d">>
t_sub == <<"s","u","b">>
t_mul == <<"m","u","l">>
t_div == <<"d","i","v">>
t_const == <<"c","o","n","s","t">>
t_push == <<"p","u","s","h">>
t_pop == <<"p","o","p">>
t_chadd == <<"c","h","a","d","d">>
t_chdel == <<"c","h","d","e","l">>
t_chswitch == <<"c","h","s","w","i","t","c","h">>
t_chin == <<"c","h","i","n">>
t_chout == <<"c","h","o","u","t">>
t_chmov == <<"c","h","m","o","v">>
t_prt_reg == <<"p","r","t","_","r","e","g">>
t_prt_str == <<"p","r","t","_","s","t","r">>
t_cmp == <<"c","m","p">>
t_jmp == <<"j","m","p">>
t_je == <<"j","e">>
t_jne == <<"j","n","e">>
t_foo == <<"f","o","o">>
t_MOV == <<"M","O","V">>
Commands == {t_mov, t_add, t_sub, t_mul, t_div, t_const, t_push, t_pop, t_chadd,
             t_chdel, t_chswitch, t_chin, t_chout, t_chmov, t_prt_reg, t_prt_str,
             t_cmp, t_jmp, t_je, t_jne}

rA == <<"A">>
rB == <<"B">>
rC == <<"C">>
rD == <<"D">>
rX == <<"X">>
ra == <<"a">>
rx == <<"x">>
n_s == <<"s">>
n_c == <<"c">>
n_c1 == <<"c","1">>
n_c2 == <<"c","2">>
n_L == <<"L">>
n_M == <<"M">>
n_skip == <<"s","k","i","p">>
n_sup2 == <<"²">>
l_L == <<"L",":">>
l_skip == <<"s","k","i","p",":">>
d0 == <<"0">>
d1 == <<"1">>
d2 == <<"2">>
d3 == <<"3">>
d5 == <<"5">>
d7 == <<"7">>
d10 == <<"1","0">>
m3 == <<"-","3">>
m7 == <<"-","7">>
m2 == <<"-","2">>
q_hi == <<"\"","h","i","\"">>
q_hello == <<"\"","h","e","l","l","o">>
q_world == <<"w","o","r","l","d","\"">>
q_open == <<"\"","a","b">>
q_quote == <<"\"">>

(* the instructions of which every program up to MaxProgLen lines is tried *)
CoreInstrs ==
    { <<t_mov, rA, d2>>, <<t_mov, rB, m3>>, <<t_mov, rA, rB>>, <<t_mov, rA, n_s>>,
      <<t_mov, rx, d1>>, <<t_mov, rB, ra>>,
      <<t_add, rA, rB>>, <<t_sub, rA, rB>>, <<t_mul, rA, rB>>, <<t_div, rA, rB>>,
      <<t_div, rA, rA>>,
      <<t_const, n_s, q_hi>>, <<t_const, n_s, d3>>, <<t_const, ra, d5>>,
      <<t_push, rA>>, <<t_push, d7>>, <<t_pop, rB>>, <<t_pop>>,
      <<t_chadd, n_c>>, <<t_chdel, n_c>>, <<t_chswitch, n_c>>, <<t_chin, rA>>,
      <<t_chin, n_s>>, <<t_chout>>, <<t_chmov, rB>>, <<t_chmov>>,
      <<t_prt_reg, rA>>, <<t_prt_reg, rX>>, <<t_prt_str, n_s>>,
      <<t_cmp, rA, rB>>, <<t_cmp, rA, rX>>, <<t_jmp, n_L>>, <<t_je, n_L>>, <<t_jne, n_L>>, <<t_je, n_M>>,
      <<l_L>>, <<t_foo>> }

(* longer programs, and single lines outside CoreInstrs *)
Scenarios ==
    { <<<<t_jmp, n_skip>>, <<t_mov, rA, d1>>, <<l_skip>>, <<t_mov, rA, d2>>, <<t_prt_reg, rA>>>>,
      <<<<t_mov, rA, d10>>, <<t_mov, rB, d0>>, <<t_div, rA, rB>>>>,
      <<<<t_mov, rA, d10>>, <<t_mov, rB, d0>>, <<t_div, rx, rB>>>>,
      <<<<t_mov, rA, m7>>, <<t_mov, rB, d2>>, <<t_div, rA, rB>>, <<t_prt_reg, rA>>>>,
      <<<<t_mov, rA, d7>>, <<t_mov, rB, m3>>, <<t_div, rA, rB>>, <<t_prt_reg, rA>>>>,
      <<<<t_mov, rA, d3>>, <<t_chadd, n_c1>>, <<t_chswitch, n_c1>>, <<t_chin, rA>>, <<t_chout>>>>,
      <<<<t_chadd, n_c1>>, <<t_chswitch, n_c1>>, <<t_chin, rA>>, <<t_chmov>>>>,
      <<<<t_chadd, n_c1>>, <<t_chswitch, n_c1>>, <<t_chin, rA>>, <<t_chmov, rX>>>>,
      <<<<t_const, n_s, q_hi>>, <<t_chadd, n_c>>, <<t_chswitch, n_c>>, <<t_chin, n_s>>,
        <<t_chmov, rA>>>>,
      <<<<t_const, n_s, q_hi>>, <<t_mov, rA, n_s>>, <<t_push, rA>>, <<t_mul, rA, rB>>>>,
      <<<<t_const, n_s, q_hi>>, <<t_mov, rA, n_s>>, <<t_mov, rB, d0>>, <<t_div, rA, rB>>>>,
      <<<<t_const, n_sup2, d5>>, <<t_mov, rA, n_sup2>>>>,
      <<<<t_const, n_s, q_hello, q_world>>, <<t_prt_str, n_s>>>>,
      <<<<t_const, n_s, q_open>>>>,
      <<<<t_const, n_s, q_quote>>, <<t_prt_str, n_s>>>>,
      <<<<t_chadd, n_c>>, <<t_chswitch, n_c>>, <<t_chout>>>>,
      <<<<t_chadd, n_c>>, <<t_chswitch, n_c>>, <<t_chmov, rB>>>>,
      <<<<t_chadd, n_c>>, <<t_chswitch, n_c>>, <<t_chdel, n_c>>, <<t_chin, rA>>>>,
      <<<<t_const, n_s, q_hi>>, <<t_mov, rA, n_s>>, <<t_add, rA, rB>>>>,
      <<<<t_const, n_s, q_hi>>, <<t_mov, rA, n_s>>, <<t_sub, rA, rA>>>>,
      <<<<t_const, n_s, q_hi>>, <<t_mov, rA, n_s>>, <<t_mov, rB, d2>>, <<t_mul, rA, rB>>,
        <<t_prt_reg, rA>>>>,
      <<<<t_const, n_s, q_hi>>, <<t_mov, rA, n_s>>, <<t_mov, rB, n_s>>, <<t_add, rA, rB>>,
        <<t_cmp, rA, rB>>>>,
      <<<<t_MOV, ra, d5>>, <<t_prt_reg, ra>>>>,
      <<<<t_mov, rA, d3>>, <<t_chadd, n_c1>>, <<t_chadd, n_c2>>, <<t_chswitch, n_c1>>,
        <<t_chin, rA>>, <<t_chin, rB>>, <<t_chswitch, n_c2>>, <<t_chin, rA>>,
        <<t_chswitch, n_c1>>, <<t_chout>>, <<t_chmov, rC>>, <<t_chout>>>>,
      <<<<t_chadd, n_c1>>, <<t_chadd, n_c2>>, <<t_chswitch, n_c1>>, <<t_chin, rA>>,
        <<t_chdel, n_c2>>, <<t_chout>>, <<t_chswitch, n_c2>>>>,
      <<<<t_mov, rA, d3>>, <<t_chadd, n_c>>, <<t_chswitch, n_c>>, <<t_chin, rA>>,
        <<t_chadd, n_c>>, <<t_chadd, n_c1>>, <<t_chout>>>>,
      <<<<t_const, n_s, d3>>, <<t_prt_str, n_s>>, <<t_prt_str, ra>>, <<t_prt_reg, rA>>>>,
      <<<<t_mov, rA, d7>>, <<t_mov, rB, m2>>, <<t_div, rA, rB>>, <<t_prt_reg, rA>>>>,
      <<<<t_mov, rA, m7>>, <<t_mov, rB, m2>>, <<t_div, rA, rB>>, <<t_prt_reg, rA>>>>,
      <<<<t_mov, rA, d10>>, <<t_mov, rB, d5>>, <<t_div, rA, rB>>, <<t_prt_reg, rA>>>>,
      <<<<t_mov, rA, d7>>, <<t_push, rA>>, <<t_mov, rA, d2>>, <<t_push, rA>>, <<t_pop, rB>>,
        <<t_pop, rC>>, <<t_pop, rD>>>>,
      <<<<t_mov, rA, d2>>, <<t_mov, rB, d2>>, <<t_cmp, rA, rB>>, <<t_je, n_L>>, <<l_L>>,
        <<t_mov, rB, d1>>, <<t_jne, n_M>>, <<t_cmp, rA, rB>>>>,
      <<<<t_mov, rA, d7>>, <<t_push, rA>>, <<t_pop, rB>>>>,
      <<<<t_push, d1>>, <<t_pop, rX>>>>,
      <<<<t_mov, rA, d2>>, <<t_cmp, rA, rB>>, <<t_je, n_M>>, <<t_prt_reg, rA>>>>,
      <<<<t_mov, rA, d2>>, <<t_cmp, rA, rB>>, <<t_jne, n_L>>, <<t_mov, rA, d1>>, <<l_L>>>>,
      <<<<t_cmp, rA, rB>>, <<t_jne, n_M>>, <<t_je, n_L>>, <<t_mov, rA, d1>>, <<l_L>>>>,
      <<<<l_L>>, <<t_mov, rA, d1>>, <<l_L>>, <<t_add, rA, rA>>, <<t_jmp, n_L>>>>,
      <<<<t_add, rX, rA>>>>, <<<<t_add, rA, rX>>>>, <<<<t_sub, rX, rA>>>>, <<<<t_sub, rA, rX>>>>,
      <<<<t_mul, rX, rA>>>>, <<<<t_mul, rA, rX>>>>, <<<<t_div, rX, rA>>>>, <<<<t_div, rA, rX>>>>,
      <<<<t_cmp, rX, rA>>>>, <<<<t_cmp, rA, rX>>>>, <<<<t_prt_reg, rX>>>>,
      <<<<t_mov, rA>>>>, <<<<t_je>>>>, <<<<t_const, n_s>>>>, <<<<t_push, n_s>>>>,
      <<<<t_chin>>>>, <<<<t_chadd, n_c>>, <<t_chswitch, n_c>>, <<t_chin>>>>,
      <<<<t_prt_reg, rA>>, <<t_mov, rA, d1>>>>,
      <<<<t_mov, rA, d2>>, <<t_jmp, n_L>>, <<t_mov, rA, d1>>, <<l_L>>>>,
      <<<<l_L, t_mov, rA, d1>>, <<t_prt_reg, rA>>>>,
      <<<<t_jmp, n_L>>, <<t_mov, rA, d2>>, <<l_L, t_mov, rA, d1>>, <<t_prt_reg, rA>>>>,
      <<<<t_cmp, rA, rB>>, <<l_L, t_foo>>, <<t_push, d7>>, <<l_L>>, <<t_prt_reg, rA>>>> }

Programs == UNION { [1..n -> CoreInstrs] : n \in 0..MaxProgLen } \cup Scenarios

(* ------------------------------------------------------------------------ *)
(* State                                                                    *)
(* ------------------------------------------------------------------------ *)
VARIABLES tokens, labels, ip, registers, constants, stack, channels,
          current_channel, flags, output, pc, error, executed, earlier

machine == <<registers, constants, stack, channels, current_channel, flags>>
vars == <<tokens, labels, ip, registers, constants, stack, channels,
          current_channel, flags, output, pc, error, executed, earlier>>

Init ==
    /\ tokens \in Programs
    /\ labels = find_labels(tokens)
    /\ ip = 0
    /\ registers = [r \in {rA, rB, rC, rD} |-> IntV(0)]
    /\ constants = EmptyDict
    /\ stack = <<>>
    /\ channels = EmptyDict
    /\ current_channel = None
    /\ flags = [EQUAL |-> FALSE]
    /\ output = <<>>
    /\ pc = "run"
    /\ error = "none"
    /\ executed = <<>>
    /\ earlier = <<>>

(* ------------------------------------------------------------------------ *)
(* The loop of execute                                                      *)
(* ------------------------------------------------------------------------ *)
line_tokens == tokens[ip + 1]
command == lower(line_tokens[1])
State == [registers |-> registers, constants |-> constants, stack |-> stack,
          channels |-> channels, current_channel |-> current_channel,
          flags |-> flags, ip |-> ip, output |-> output]

Fetch == pc = "run" /\ ip < Len(tokens) /\ Len(executed) < MaxSteps

(* store what the branch computed; break leaves the loop, otherwise ip += 1 *)
Commit(r) ==
    /\ registers' = r.s.registers
    /\ constants' = r.s.constants
    /\ stack' = r.s.stack
    /\ channels' = r.s.channels
    /\ current_channel' = r.s.current_channel
    /\ flags' = r.s.flags
    /\ output' = r.s.output
    /\ error' = r.err
    /\ IF r.brk
       THEN ip' = r.s.ip /\ pc' = "halted"
       ELSE ip' = r.s.ip + 1 /\ pc' = "run"
    /\ executed' = Append(executed, ip)
    /\ UNCHANGED <<tokens, labels, earlier>>

(* a label line whose remaining tokens are dispatched as an instruction *)
Label_RunsRest ==
    /\ Fetch
    /\ endswith(command, ":")
    /\ IF Len(line_tokens) >= 2 /\ lower(line_tokens[2]) = t_mov
       THEN Commit(ExecMov(Tail(line_tokens), State))
       ELSE /\ ip' = ip + 1
            /\ executed' = Append(executed, ip)
            /\ UNCHANGED <<tokens, labels, registers, constants, stack, channels,
                           current_channel, flags, output, pc, error, earlier>>

Label ==
    /\ Fetch
    /\ endswith(command, ":")
    /\ ip' = ip + 1
    /\ executed' = Append(executed, ip)
    /\ UNCHANGED <<tokens, labels, registers, constants, stack, channels,
                   current_channel, flags, output, pc, error, earlier>>

Mov == Fetch /\ command = t_mov /\ Commit(ExecMov(line_tokens, State))
Add == Fetch /\ command = t_add /\ Commit(ExecAdd(line_tokens, State))
Sub == Fetch /\ command = t_sub /\ Commit(ExecSub(line_tokens, State))
Mul == Fetch /\ command = t_mul /\ Commit(ExecMul(line_tokens, State))
Div == Fetch /\ command = t_div /\ Commit(ExecDiv(line_tokens, State))
Const == Fetch /\ command = t_const /\ Commit(ExecConst(line_tokens, State))
Push == Fetch /\ command = t_push /\ Commit(ExecPush(line_tokens, State))
Pop == Fetch /\ command = t_pop /\ Commit(ExecPop(line_tokens, State))
Chadd == Fetch /\ command = t_chadd /\ Commit(ExecChadd(line_tokens, State))
Chdel == Fetch /\ command = t_chdel /\ Commit(ExecChdel(line_tokens, State))
Chswitch == Fetch /\ command = t_chswitch /\ Commit(ExecChswitch(line_tokens, State))
Chin == Fetch /\ command = t_chin /\ Commit(ExecChin(line_tokens, State))
Chout == Fetch /\ command = t_chout /\ Commit(ExecChout(line_tokens, State))
Chmov == Fetch /\ command = t_chmov /\ Commit(ExecChmov(line_tokens, State))
PrtReg == Fetch /\ command = t_prt_reg /\ Commit(ExecPrtReg(line_tokens, State))
PrtStr == Fetch /\ command = t_prt_str /\ Commit(ExecPrtStr(line_tokens, State))
Cmp == Fetch /\ command = t_cmp /\ Commit(ExecCmp(line_tokens, State))
Jmp == Fetch /\ command = t_jmp /\ Commit(ExecJmp(line_tokens, State, labels))
Je == Fetch /\ command = t_je /\ Commit(ExecJe(line_tokens, State, labels))
Jne == Fetch /\ command = t_jne /\ Commit(ExecJne(line_tokens, State, labels))
UnknownCommand ==
    /\ Fetch
    /\ ~endswith(command, ":")
    /\ command \notin Commands
    /\ Commit(ExecUnknown(line_tokens, State))

(* the while condition fails: execute returns *)
Return ==
    /\ pc = "run"
    /\ ip >= Len(tokens)
    /\ pc' = "done"
    /\ UNCHANGED <<tokens, labels, ip, registers, constants, stack, channels,
                   current_channel, flags, output, error, executed, earlier>>

Next ==
    \/ Label \/ Mov \/ Add \/ Sub \/ Mul \/ Div \/ Const \/ Push \/ Pop
    \/ Chadd \/ Chdel \/ Chswitch \/ Chin \/ Chout \/ Chmov \/ PrtReg \/ PrtStr
    \/ Cmp \/ Jmp \/ Je \/ Jne \/ UnknownCommand \/ Return

Spec == Init /\ [][Next]_vars

(* execute called again on the same tokens and labels after it returned: ip  *)
(* starts at 0 again, the module globals are what the earlier call left.     *)
(* earlier keeps the lines each finished call printed.                       *)
Rerun ==
    /\ pc \in {"done", "halted"}
    /\ Len(earlier) + 1 < MaxRuns
    /\ earlier' = Append(earlier, output)
    /\ output' = <<>>
    /\ ip' = 0
    /\ pc' = "run"
    /\ error' = "none"
    /\ executed' = <<>>
    /\ UNCHANGED <<tokens, labels, registers, constants, stack, channels,
                   current_channel, flags>>

NextRerun == Next \/ Rerun

SpecRerun == Init /\ [][NextRerun]_vars

(* the while loop of execute keeps running until it returns or breaks *)
FairSpec == Spec /\ WF_vars(Next)

TypeOK ==
    /\ pc \in {"run", "halted", "done"}
    /\ ip \in 0..Len(tokens)
    /\ Len(executed) <= MaxSteps

(* ------------------------------------------------------------------------ *)
(* Vocabulary of the properties                                             *)
(* ------------------------------------------------------------------------ *)
(* the line the step about to be taken executes *)
Cur == line_tokens
CurLabel == Cur[2]
IsJe == command = t_je
IsJne == command = t_jne
(* the jump condition of the line at ip holds *)
Taken ==
    \/ command = t_jmp
    \/ IsJe /\ flags.EQUAL
    \/ IsJne /\ ~flags.EQUAL
IsJumpLine == command \in {t_jmp, t_je, t_jne} /\ Len(Cur) >= 2
TakenJump == IsJumpLine /\ Taken /\ CurLabel \in DOMAIN labels

(* the 0-based indices of the label lines, and the name a label line declares *)
LabelIdx == {i \in 0..(Len(tokens) - 1) : endswith(tokens[i + 1][1], ":")}
LabelName(lt) == SubSeq(lt[1], 1, Len(lt[1]) - 1)
SetMax(S) == CHOOSE x \in S : \A y \in S : y <= x

(* the line executed by the k-th step of the run, and where the run went next *)
ExecutedLine(k) == tokens[executed[k] + 1]
After(k) == IF k < Len(executed) THEN executed[k + 1] ELSE ip

(* ------------------------------------------------------------------------ *)
(* C1: a step that halts the run on an error leaves registers, constants,   *)
(* stack, channels, active channel and the EQUAL flag as they were before   *)
(* the failing instruction, and a halted run executes nothing further.      *)
(* ------------------------------------------------------------------------ *)
C1_HaltKeepsState ==
    [][ /\ (pc' = "halted" => (pc = "run" /\ error' # "none" /\ machine' = machine
                                /\ ip' = ip))
        /\ (pc = "halted" => UNCHANGED <<machine, ip, executed, pc, output>>) ]_vars
C1_Witness ==
    /\ pc = "halted"
    /\ error = "IncompleteCommand"
    /\ lower(tokens[ip + 1][1]) = t_pop
    /\ stack # <<>>

(* ------------------------------------------------------------------------ *)
(* C2 as stated: a taken jump to a known label sets IP to exactly           *)
(* LabelMap[label], skipping the generic increment; every non-jump,         *)
(* non-halting instruction advances IP by exactly 1.                        *)
(* ------------------------------------------------------------------------ *)
C2_JumpSetsIpToLabel ==
    [][ Fetch => IF TakenJump THEN ip' = labels[CurLabel]
                 ELSE (pc' = "run" => ip' = ip + 1) ]_vars
(* C2 amended: a taken jump to a known label sets IP to LabelMap[label] and *)
(* the generic increment still applies, so IP becomes LabelMap[label] + 1   *)
(* and the next instruction fetched is the one after the label line; every  *)
(* non-jump, non-halting instruction advances IP by exactly 1.              *)
C2_JumpThenIncrement ==
    [][ Fetch => IF TakenJump THEN pc' = "run" /\ ip' = labels[CurLabel] + 1
                 ELSE (pc' = "run" => ip' = ip + 1) ]_vars
C2_Witness ==
    /\ executed # <<>>
    /\ pc = "run"
    /\ LET lt == ExecutedLine(Len(executed)) IN
       /\ lower(lt[1]) = t_jmp
       /\ Len(lt) >= 2
       /\ lt[2] \in DOMAIN labels
       /\ ip = labels[lt[2]] + 1
       /\ ip < Len(tokens)

(* ------------------------------------------------------------------------ *)
(* C3: when a jmp L that stands before the label line L: is executed, the   *)
(* next instruction executed lies after the label line, so no instruction   *)
(* between the jmp and the label runs; the program jmp skip / mov A 1 /     *)
(* skip: / mov A 2 / prt_reg A runs to the end and its only output is       *)
(* register A's value 2.                                                    *)
(* ------------------------------------------------------------------------ *)
SkipProgram ==
    <<<<t_jmp, n_skip>>, <<t_mov, rA, d1>>, <<l_skip>>, <<t_mov, rA, d2>>, <<t_prt_reg, rA>>>>
C3_ForwardJumpSkips ==
    /\ \A k \in 1..Len(executed) :
          LET i == executed[k]
              lt == ExecutedLine(k)
          IN  (/\ lower(lt[1]) = t_jmp
               /\ Len(lt) >= 2
               /\ lt[2] \in DOMAIN labels
               /\ labels[lt[2]] > i)
              => /\ After(k) \notin (i + 1)..labels[lt[2]]
                 /\ After(k) = labels[lt[2]] + 1
    /\ tokens = SkipProgram =>
          /\ pc # "halted"
          /\ 1 \notin {executed[k] : k \in 1..Len(executed)}
          /\ pc = "done" =>
                /\ output = <<OutLine("prt_reg", "none", rA, IntV(2))>>
                /\ executed = <<0, 3, 4>>
C3_Witness ==
    /\ tokens = SkipProgram
    /\ pc = "done"
    /\ registers[rA] = IntV(2)

(* ------------------------------------------------------------------------ *)
(* C4: find_labels maps each label name (token[0] without the trailing      *)
(* colon) to the index of the label line itself; of several declarations of *)
(* one name the last is recorded; without label lines the map is empty.     *)
(* ------------------------------------------------------------------------ *)
C4_FindLabels ==
    /\ DOMAIN labels = {LabelName(tokens[i + 1]) : i \in LabelIdx}
    /\ \A n \in DOMAIN labels :
          labels[n] = SetMax({i \in LabelIdx : LabelName(tokens[i + 1]) = n})
    /\ LabelIdx = {} => labels = EmptyDict
C4_Witness ==
    \E i, j \in LabelIdx :
        /\ i < j
        /\ LabelName(tokens[i + 1]) = LabelName(tokens[j + 1])
        /\ labels[LabelName(tokens[i + 1])] = j

(* ------------------------------------------------------------------------ *)
(* C5: je transfers control to its label only when EQUAL is true, jne only  *)
(* when EQUAL is false; otherwise the instruction falls through to IP + 1   *)
(* with the machine state unchanged, whether or not the label is known; an  *)
(* unknown label halts the run only when the jump would be taken.           *)
(* ------------------------------------------------------------------------ *)
C5_ConditionalJump ==
    [][ (Fetch /\ (IsJe \/ IsJne) /\ Len(Cur) >= 2) =>
           /\ machine' = machine
           /\ ~Taken => (pc' = "run" /\ ip' = ip + 1 /\ error' = "none")
           /\ (Taken /\ CurLabel \in DOMAIN labels) =>
                 (pc' = "run" /\ ip' = labels[CurLabel] + 1)
           /\ (Taken /\ CurLabel \notin DOMAIN labels) =>
                 (pc' = "halted" /\ error' = "UnknownLabel" /\ ip' = ip) ]_vars
C5_Witness ==
    /\ Len(executed) >= 3
    /\ pc = "run"
    /\ LET lt == ExecutedLine(Len(executed)) IN
       /\ lower(lt[1]) = t_je
       /\ lt[2] \notin DOMAIN labels
       /\ ~flags.EQUAL
       /\ ip = executed[Len(executed)] + 1

(* ------------------------------------------------------------------------ *)
(* C6: in every reachable state the register map has exactly the keys A, B, *)
(* C, D; an instruction naming another register halts instead of creating   *)
(* an entry.                                                                *)
(* ------------------------------------------------------------------------ *)
C6_RegisterKeysFixed == DOMAIN registers = {rA, rB, rC, rD}

(* ------------------------------------------------------------------------ *)
(* C7: in every reachable state every register value, every stack element   *)
(* and every element of every channel is an integer.                        *)
(* ------------------------------------------------------------------------ *)
C7_ValuesAreIntegers ==
    /\ \A r \in DOMAIN registers : IsInt(registers[r])
    /\ \A k \in 1..Len(stack) : IsInt(stack[k])
    /\ \A c \in DOMAIN channels : \A k \in 1..Len(channels[c]) : IsInt(channels[c][k])

(* ------------------------------------------------------------------------ *)
(* C8: once a const instruction has defined a name, no later instruction,   *)
(* a second const of that name included, changes the name's value.          *)
(* ------------------------------------------------------------------------ *)
C8_ConstantsNeverChange ==
    [][ \A n \in DOMAIN constants :
           n \in DOMAIN constants' /\ constants'[n] = constants[n] ]_vars

(* ------------------------------------------------------------------------ *)
(* C9: div dst src with the source register equal to 0 halts the run with   *)
(* DivisionByZero and leaves the destination register and all other state   *)
(* unchanged, also when dst and src are the same register.                  *)
(* ------------------------------------------------------------------------ *)
C9_DivisionByZero ==
    [][ (/\ Fetch
         /\ command = t_div
         /\ Len(Cur) >= 3
         /\ upper(Cur[3]) \in DOMAIN registers
         /\ IsZero(registers[upper(Cur[3])]))
        => (pc' = "halted" /\ error' = "DivisionByZero" /\ machine' = machine) ]_vars
C9_Witness ==
    /\ pc = "halted"
    /\ error = "DivisionByZero"
    /\ registers[rA] = IntV(10)
    /\ registers[rB] = IntV(0)

(* ------------------------------------------------------------------------ *)
(* C10: mov dst src resolves src in strict priority order: a signed decimal *)
(* integer literal gives dst that integer; otherwise a register name (case  *)
(* insensitive) gives dst the register's value; otherwise a key of the      *)
(* constants table gives dst the constant's value; otherwise the run halts  *)
(* with UnknownSource and dst is unchanged.                                 *)
(* ------------------------------------------------------------------------ *)
Unsigned(str) == IF startswith(str, "-") THEN Tail(str) ELSE str
IsDecimalLiteral(str) ==
    /\ Len(Unsigned(str)) > 0
    /\ \A k \in 1..Len(Unsigned(str)) : IsAsciiDigit(Unsigned(str)[k])
C10_MovPriority ==
    [][ (Fetch /\ command = t_mov /\ Len(Cur) >= 3) =>
           LET dst == upper(Cur[2])
               src == Cur[3]
           IN  IF IsDecimalLiteral(src)
               THEN pc' = "run" /\ registers'[dst] = IntV(int(src))
               ELSE IF upper(src) \in DOMAIN registers
               THEN pc' = "run" /\ registers'[dst] = registers[upper(src)]
               ELSE IF src \in DOMAIN constants
               THEN pc' = "run" /\ registers'[dst] = constants[src]
               ELSE pc' = "halted" /\ error' = "UnknownSource" /\ registers' = registers ]_vars

(* ------------------------------------------------------------------------ *)
(* More vocabulary                                                          *)
(* ------------------------------------------------------------------------ *)
(* the line at ip is the given command with at least n tokens *)
At(cmd, n) == Fetch /\ command = cmd /\ Len(Cur) >= n
(* the register a token names *)
Reg(tok) == upper(tok)
(* the step before this one executed a push of a register *)
JustPushed ==
    /\ executed # <<>>
    /\ lower(ExecutedLine(Len(executed))[1]) = t_push
    /\ Len(ExecutedLine(Len(executed))) >= 2
    /\ Reg(ExecutedLine(Len(executed))[2]) \in DOMAIN registers
PushedReg == Reg(ExecutedLine(Len(executed))[2])
Active == channels[current_channel]
HasActive == current_channel # None /\ current_channel \in DOMAIN channels

(* ------------------------------------------------------------------------ *)
(* C11: the stack is LIFO: push r puts r's value on top; pop s takes the    *)
(* top into s; a pop s right after a push r leaves the stack as it was      *)
(* before the push and gives s the value r held, so pops return pushed      *)
(* values in reverse order; pop on an empty stack halts with EmptyStack and *)
(* changes no register.                                                     *)
(* ------------------------------------------------------------------------ *)
C11_StackLifo ==
    [][ /\ (At(t_push, 2) /\ Reg(Cur[2]) \in DOMAIN registers) =>
              /\ pc' = "run"
              /\ stack' = Append(stack, registers[Reg(Cur[2])])
              /\ registers' = registers
        /\ (At(t_pop, 2) /\ stack # <<>>) =>
              /\ pc' = "run"
              /\ stack' = SubSeq(stack, 1, Len(stack) - 1)
              /\ registers'[Reg(Cur[2])] = stack[Len(stack)]
              /\ \A r \in DOMAIN registers \ {Reg(Cur[2])} : registers'[r] = registers[r]
        /\ (At(t_pop, 2) /\ JustPushed) =>
              /\ registers'[Reg(Cur[2])] = registers[PushedReg]
              /\ Append(stack', registers[PushedReg]) = stack
        /\ (At(t_pop, 2) /\ stack = <<>>) =>
              /\ pc' = "halted"
              /\ error' = "EmptyStack"
              /\ registers' = registers
              /\ stack' = stack ]_vars
C11_Witness ==
    /\ pc = "halted"
    /\ error = "EmptyStack"
    /\ registers[rB] = IntV(2)
    /\ registers[rC] = IntV(7)
    /\ registers[rD] = IntV(0)

(* ------------------------------------------------------------------------ *)
(* C12: each channel is a FIFO: chin appends to the back of the active      *)
(* channel, chout and chmov remove its front, chswitch changes no contents, *)
(* and none of them changes another channel, so what leaves a channel is    *)
(* what entered it, in order; chout/chmov halt with EmptyChannel on an      *)
(* empty active channel and with NoActiveChannel when there is none.        *)
(* ------------------------------------------------------------------------ *)
ChannelProgram ==
    <<<<t_mov, rA, d3>>, <<t_chadd, n_c1>>, <<t_chadd, n_c2>>, <<t_chswitch, n_c1>>,
      <<t_chin, rA>>, <<t_chin, rB>>, <<t_chswitch, n_c2>>, <<t_chin, rA>>,
      <<t_chswitch, n_c1>>, <<t_chout>>, <<t_chmov, rC>>, <<t_chout>>>>
ChinValue ==
    IF Reg(Cur[2]) \in DOMAIN registers THEN registers[Reg(Cur[2])] ELSE constants[Cur[2]]
C12_ChannelFifo ==
    /\ [][ /\ (At(t_chin, 2) /\ HasActive
                 /\ (Reg(Cur[2]) \in DOMAIN registers \/ Cur[2] \in DOMAIN constants)) =>
                 /\ pc' = "run"
                 /\ channels' = [channels EXCEPT ![current_channel] = Append(@, ChinValue)]
           /\ (At(t_chout, 1) /\ HasActive /\ Active # <<>>) =>
                 /\ pc' = "run"
                 /\ channels' = [channels EXCEPT ![current_channel] = Tail(@)]
                 /\ output' = Append(output, OutLine("chout", "none", current_channel, Head(Active)))
           /\ (At(t_chmov, 2) /\ HasActive /\ Active # <<>>) =>
                 /\ pc' = "run"
                 /\ channels' = [channels EXCEPT ![current_channel] = Tail(@)]
                 /\ registers'[Reg(Cur[2])] = Head(Active)
           /\ At(t_chswitch, 1) => channels' = channels
           /\ ((At(t_chout, 1) \/ At(t_chmov, 1)) /\ HasActive /\ Active = <<>>) =>
                 (pc' = "halted" /\ error' = "EmptyChannel" /\ machine' = machine)
           /\ ((At(t_chout, 1) \/ At(t_chmov, 1)) /\ current_channel = None) =>
                 (pc' = "halted" /\ error' = "NoActiveChannel" /\ machine' = machine) ]_vars
    /\ [](tokens = ChannelProgram /\ pc # "run" =>
             /\ pc = "halted"
             /\ output = <<OutLine("chout", "none", n_c1, IntV(3)),
                           OutLine("error", "EmptyChannel", n_c1, IntV(0))>>
             /\ registers[rC] = IntV(0)
             /\ channels[n_c1] = <<>>
             /\ channels[n_c2] = <<IntV(3)>>)
C12_Witness ==
    /\ tokens = ChannelProgram
    /\ pc = "halted"
    /\ error = "EmptyChannel"
    /\ Len(executed) = 12

(* ------------------------------------------------------------------------ *)
(* C13: chdel of an existing channel removes it; if it was the active       *)
(* channel ActiveChannel becomes None, so that chin/chout/chmov then halt   *)
(* with NoActiveChannel; otherwise ActiveChannel and the other channels are *)
(* unchanged; chdel and chswitch of a channel that does not exist halt      *)
(* without changing ActiveChannel.                                          *)
(* ------------------------------------------------------------------------ *)
C13_ChannelDelete ==
    [][ /\ (At(t_chdel, 2) /\ Cur[2] \in DOMAIN channels) =>
              /\ pc' = "run"
              /\ DOMAIN channels' = DOMAIN channels \ {Cur[2]}
              /\ \A c \in DOMAIN channels' : channels'[c] = channels[c]
              /\ current_channel' = IF current_channel = Cur[2] THEN None ELSE current_channel
        /\ ((At(t_chdel, 2) \/ At(t_chswitch, 2)) /\ Cur[2] \notin DOMAIN channels) =>
              /\ pc' = "halted"
              /\ error' = "UnknownChannel"
              /\ current_channel' = current_channel
              /\ channels' = channels
        /\ ((At(t_chin, 1) \/ At(t_chout, 1) \/ At(t_chmov, 1)) /\ current_channel = None) =>
              (pc' = "halted" /\ error' = "NoActiveChannel") ]_vars
C13_Witness ==
    /\ pc = "halted"
    /\ error = "NoActiveChannel"
    /\ Len(executed) >= 4
    /\ lower(ExecutedLine(Len(executed) - 1)[1]) = t_chdel
    /\ lower(ExecutedLine(Len(executed))[1]) = t_chin
    /\ channels = EmptyDict

(* ------------------------------------------------------------------------ *)
(* C14: chadd of a channel that already exists is not fatal: it emits a     *)
(* warning, leaves that channel's values, the other channels and            *)
(* ActiveChannel unchanged and execution continues at IP + 1; chadd of an   *)
(* absent name creates an empty FIFO and does not change ActiveChannel.     *)
(* ------------------------------------------------------------------------ *)
C14_ChannelAdd ==
    [][ At(t_chadd, 2) =>
           /\ pc' = "run"
           /\ ip' = ip + 1
           /\ current_channel' = current_channel
           /\ <<registers', constants', stack', flags'>> = <<registers, constants, stack, flags>>
           /\ IF Cur[2] \in DOMAIN channels
              THEN /\ channels' = channels
                   /\ output' = Append(output,
                          OutLine("warning", "ChannelAlreadyExists", Cur[2], IntV(0)))
              ELSE /\ DOMAIN channels' = DOMAIN channels \cup {Cur[2]}
                   /\ channels'[Cur[2]] = <<>>
                   /\ \A c \in DOMAIN channels : channels'[c] = channels[c]
                   /\ output' = output ]_vars
C14_Witness ==
    /\ executed # <<>>
    /\ lower(ExecutedLine(Len(executed))[1]) = t_chadd
    /\ output # <<>>
    /\ output[Len(output)].kind = "warning"
    /\ current_channel = n_c
    /\ channels[n_c] = <<IntV(3)>>
    /\ pc = "run"

(* ------------------------------------------------------------------------ *)
(* C15: prt_str of a name that is no constant or is an integer constant     *)
(* emits an error and does not halt: execution continues at IP + 1 with the *)
(* machine state unchanged; apart from the chadd warning no other error is  *)
(* followed by further instructions.                                        *)
(* ------------------------------------------------------------------------ *)
Reported(o) == o # <<>> /\ o[Len(o)].kind \in {"error", "warning"}
C15_PrtStrContinues ==
    [][ /\ (At(t_prt_str, 2)
              /\ ~(Cur[2] \in DOMAIN constants /\ IsStr(constants[Cur[2]]))) =>
              /\ pc' = "run"
              /\ ip' = ip + 1
              /\ machine' = machine
              /\ output' = Append(output, OutLine("error", "NotAString", Cur[2], IntV(0)))
        /\ (Fetch /\ Len(output') > Len(output) /\ Reported(output') /\ pc' = "run") =>
              command \in {t_prt_str, t_chadd}
        /\ (Fetch /\ error' # "none") => pc' = "halted" ]_vars
C15_Witness ==
    /\ pc = "done"
    /\ Len(output) = 3
    /\ output[1].msg = "NotAString"
    /\ output[2].msg = "NotAString"
    /\ output[3] = OutLine("prt_reg", "none", rA, IntV(0))
    /\ constants[n_s] = IntV(3)

(* ------------------------------------------------------------------------ *)
(* C16: the EQUAL flag is false until the first cmp executes and only cmp   *)
(* changes it: after cmp r1 r2 it is (value of r1 = value of r2); every     *)
(* other instruction, je and jne taken or not included, leaves it as it is. *)
(* ------------------------------------------------------------------------ *)
NoCmpYet == \A k \in 1..Len(executed) : lower(ExecutedLine(k)[1]) # t_cmp
C16_FlagOnlyByCmp ==
    /\ [](NoCmpYet => ~flags.EQUAL)
    /\ [][ /\ (At(t_cmp, 3) /\ Reg(Cur[2]) \in DOMAIN registers
                            /\ Reg(Cur[3]) \in DOMAIN registers) =>
                 /\ pc' = "run"
                 /\ flags'.EQUAL = (registers[Reg(Cur[2])] = registers[Reg(Cur[3])])
           /\ ~(Fetch /\ command = t_cmp) => flags' = flags ]_vars
C16_Witness ==
    /\ executed # <<>>
    /\ lower(ExecutedLine(Len(executed))[1]) = t_je
    /\ flags.EQUAL
    /\ pc = "run"
    /\ ip = labels[ExecutedLine(Len(executed))[2]] + 1
    /\ registers[rA] = IntV(2)

(* ------------------------------------------------------------------------ *)
(* C17: running execute twice in succession on the same Program and         *)
(* LabelMap yields identical output sequences: every run starts from fresh  *)
(* machine state (registers 0, empty stack, no channels, no constants, no   *)
(* active channel, EQUAL false) and sees nothing an earlier run wrote.      *)
(* ------------------------------------------------------------------------ *)
Fresh ==
    /\ registers = [r \in {rA, rB, rC, rD} |-> IntV(0)]
    /\ constants = EmptyDict
    /\ stack = <<>>
    /\ channels = EmptyDict
    /\ current_channel = None
    /\ flags = [EQUAL |-> FALSE]
RunStart == pc = "run" /\ ip = 0 /\ executed = <<>>
C17_RerunIdempotent ==
    /\ RunStart => Fresh
    /\ (pc \in {"done", "halted"} /\ earlier # <<>>) => output = earlier[Len(earlier)]

(* ------------------------------------------------------------------------ *)
(* C18: every instruction with fewer tokens than its opcode requires halts  *)
(* the run with IncompleteCommand, whatever the machine state (stack or     *)
(* channel empty or not, active channel set or not, flag true or false).    *)
(* ------------------------------------------------------------------------ *)
Required(cmd) ==
    IF cmd \in {t_mov, t_add, t_sub, t_mul, t_div, t_const, t_cmp} THEN 3
    ELSE IF cmd = t_chout THEN 1
    ELSE 2
C18_IncompleteCommand ==
    [][ (Fetch /\ command \in Commands /\ Len(Cur) < Required(command)) =>
           /\ pc' = "halted"
           /\ error' = "IncompleteCommand"
           /\ machine' = machine ]_vars

(* ------------------------------------------------------------------------ *)
(* C19: div dst src with src non-zero sets dst to the floor of dst / src    *)
(* (rounding toward negative infinity) for every combination of operand     *)
(* signs, e.g. -7 div 2 = -4 and 7 div -2 = -4, and changes no other        *)
(* register.                                                                *)
(* ------------------------------------------------------------------------ *)
IsFloor(q, a, b) ==
    IF b > 0 THEN q * b <= a /\ a < (q + 1) * b
             ELSE q * b >= a /\ a > (q + 1) * b
C19_FloorDivision ==
    [][ (At(t_div, 3) /\ Reg(Cur[2]) \in DOMAIN registers
                      /\ Reg(Cur[3]) \in DOMAIN registers
                      /\ IsInt(registers[Reg(Cur[2])])
                      /\ IsInt(registers[Reg(Cur[3])])
                      /\ registers[Reg(Cur[3])].i # 0) =>
           /\ pc' = "run"
           /\ DOMAIN registers' = DOMAIN registers
           /\ IsInt(registers'[Reg(Cur[2])])
           /\ IsFloor(registers'[Reg(Cur[2])].i, registers[Reg(Cur[2])].i,
                      registers[Reg(Cur[3])].i)
           /\ \A r \in DOMAIN registers \ {Reg(Cur[2])} : registers'[r] = registers[r] ]_vars
C19_Witness ==
    /\ tokens = <<<<t_mov, rA, m7>>, <<t_mov, rB, d2>>, <<t_div, rA, rB>>, <<t_prt_reg, rA>>>>
    /\ pc = "done"
    /\ registers[rA] = IntV(0 - 4)
    /\ registers[rB] = IntV(2)
    /\ output = <<OutLine("prt_reg", "none", rA, IntV(0 - 4))>>

(* ------------------------------------------------------------------------ *)
(* C20: in every state of a run that starts with no active channel,         *)
(* ActiveChannel is None or the name of a channel present in the channels   *)
(* map: no sequence of chadd, chdel and chswitch leaves it dangling.        *)
(* ------------------------------------------------------------------------ *)
C20_ActiveChannelExists ==
    current_channel = None \/ current_channel \in DOMAIN channels
C20_Witness ==
    /\ Len(executed) >= 3
    /\ lower(ExecutedLine(Len(executed) - 1)[1]) = t_chswitch
    /\ lower(ExecutedLine(Len(executed))[1]) = t_chdel
    /\ ExecutedLine(Len(executed))[2] = ExecutedLine(Len(executed) - 1)[2]
    /\ pc = "run"
    /\ current_channel = None
    /\ ExecutedLine(Len(executed))[2] \notin DOMAIN channels

(* ------------------------------------------------------------------------ *)
(* C21: with the LabelMap find_labels builds from the same Program,         *)
(* 0 <= IP <= len(Program) in every reachable state, also right after a     *)
(* jump to a label declared on the last line; the run ends normally exactly *)
(* when IP = len(Program).                                                  *)
(* ------------------------------------------------------------------------ *)
C21_IpInBounds ==
    /\ [](/\ 0 <= ip
          /\ ip <= Len(tokens)
          /\ pc = "done" => ip = Len(tokens)
          /\ pc = "halted" => ip < Len(tokens))
    /\ [][ /\ (pc = "run" /\ ip = Len(tokens)) => pc' = "done"
           /\ (pc = "run" /\ ip < Len(tokens)) => pc' # "done" ]_vars
C21_Witness ==
    /\ executed # <<>>
    /\ lower(ExecutedLine(Len(executed))[1]) = t_jmp
    /\ ExecutedLine(Len(executed))[2] \in DOMAIN labels
    /\ labels[ExecutedLine(Len(executed))[2]] = Len(tokens) - 1
    /\ ip = Len(tokens)
    /\ pc = "run"
    /\ Len(tokens) = 4

(* ------------------------------------------------------------------------ *)
(* C22: a run of a Program without jmp, je or jne always terminates, after  *)
(* at most len(Program) executed instructions, because every step halts or  *)
(* increases IP by 1; with a jump to a label at or before it termination is *)
(* not guaranteed: `L:` followed by `jmp L` never halts.                    *)
(* ------------------------------------------------------------------------ *)
NoJumps ==
    \A k \in 1..Len(tokens) : lower(tokens[k][1]) \notin {t_jmp, t_je, t_jne}
LoopProgram == <<<<l_L>>, <<t_jmp, n_L>>>>
C22_Termination ==
    /\ [](NoJumps => Len(executed) <= Len(tokens))
    /\ [][ (NoJumps /\ Fetch) => (pc' = "halted" \/ ip' = ip + 1) ]_vars
    /\ (NoJumps => <>(pc \in {"done", "halted"}))
    /\ [](tokens = LoopProgram => (pc = "run" /\ ip < Len(tokens)))
C22_Witness ==
    /\ NoJumps
    /\ pc = "done"
    /\ Len(tokens) >= 5
    /\ Len(executed) = Len(tokens)
    /\ \A k \in 1..Len(executed) : executed[k] = k - 1

(* ------------------------------------------------------------------------ *)
(* C23: an instruction whose first token ends with ":" is a no-op: it only  *)
(* advances IP by 1 and changes no register, constant, stack, channel,      *)
(* active channel or flag, even when further tokens follow the label on the *)
(* line (they are never executed), and the label is still recorded in the   *)
(* LabelMap.                                                                *)
(* ------------------------------------------------------------------------ *)
C23_LabelNoOp ==
    /\ [][ (Fetch /\ endswith(Cur[1], ":")) =>
              /\ ip' = ip + 1
              /\ pc' = "run"
              /\ machine' = machine
              /\ output' = output
              /\ error' = error ]_vars
    /\ [](\A i \in LabelIdx :
             /\ LabelName(tokens[i + 1]) \in DOMAIN labels
             /\ labels[LabelName(tokens[i + 1])] \in LabelIdx
             /\ labels[LabelName(tokens[i + 1])] >= i
             /\ LabelName(tokens[labels[LabelName(tokens[i + 1])] + 1])
                    = LabelName(tokens[i + 1]))
C23_Witness ==
    /\ tokens = <<<<l_L, t_mov, rA, d1>>, <<t_prt_reg, rA>>>>
    /\ labels[n_L] = 0
    /\ pc = "done"
    /\ executed = <<0, 1>>
    /\ registers[rA] = IntV(0)
    /\ output = <<OutLine("prt_reg", "none", rA, IntV(0))>>

====
